---- MODULE Spec2Model ----
(***************************************************************************)
(* ConnectedBlockIter: two chained ordered parallel stages over a shared   *)
(* unspent-output cache.                                                   *)
(*   stage 1: height -> update_unspent_cache (read block, insert outputs)  *)
(*   stage 2: block  -> connect_outpoints    (resolve and remove spends)   *)
(* Both cache backends of the build are modelled: "mem" (the default       *)
(* build) and "disk" (feature on-disk-utxo).                               *)
(*                                                                         *)
(* Every single store call (write batch, multi_get, delete) is one atomic   *)
(* step.  Every Mutex critical section is two steps: lock() returns, and   *)
(* the body runs to the drop of the guard; the guards alive are in held.   *)
(* Thread-local computation is folded into the step that precedes it.      *)
(* Store calls are assumed not to fail with an I/O error.  The release     *)
(* build is modelled: the duplicate-key warning under debug_assertions     *)
(* (a read of the map under its lock, once per transaction) is left out.   *)
(***************************************************************************)
EXTENDS Integers, Sequences, FiniteSets, TLC

\* ------------------------------------------------------------------ bounds

\* worker threads of each stage's pool
NumWorkers == 2

\* capacity of a stage's bounded delivery channel
ChanCap == 1

\* calls to next that return None which the caller still makes
MaxNone == 2

\* ------------------------------------------------------------- chain data

\* vout of the null outpoint: u32::MAX, all bits set; its txid is all zeroes
NullVout == 0 - 1

OutPoint(t, n) == [txid |-> t, vout |-> n]

NullOutPoint == OutPoint(0, NullVout)

TxIn(t, n) == [previous_output |-> OutPoint(t, n)]

Coinbase == [previous_output |-> NullOutPoint]

Tx(id, ins, outs) == [txid |-> id, input |-> ins, output |-> outs]

Block(h, txs) == [header |-> h, txdata |-> txs]

\* block 0 creates A (17) with two outputs; block 1 spends A:0 and creates
\* B (19); block 2 spends A:1 and B:0
ChainExample ==
    << Block(0, << Tx(17, <<Coinbase>>, <<50, 51>>) >>),
       Block(1, << Tx(18, <<Coinbase>>, <<52>>),
                   Tx(19, <<TxIn(17, 0)>>, <<600>>) >>),
       Block(2, << Tx(20, <<TxIn(17, 1), TxIn(19, 0)>>, <<70>>) >>) >>

\* an output created and spent inside one block, and a transaction
\* without outputs
ChainInner ==
    << Block(0, << Tx(17, <<Coinbase>>, <<50>>) >>),
       Block(1, << Tx(18, <<Coinbase>>, <<61, 62>>),
                   Tx(19, <<TxIn(18, 1)>>, <<63>>) >>),
       Block(2, << Tx(20, <<TxIn(18, 0), TxIn(17, 0)>>, <<>>) >>) >>

\* blocks 1 and 2 both spend A:0
ChainDoubleSpend ==
    << Block(0, << Tx(17, <<Coinbase>>, <<50, 51>>) >>),
       Block(1, << Tx(19, <<TxIn(17, 0)>>, <<60>>) >>),
       Block(2, << Tx(20, <<TxIn(17, 0)>>, <<70>>) >>) >>

\* two inputs of block 1 spend A:0
ChainSameBlock ==
    << Block(0, << Tx(17, <<Coinbase>>, <<50, 51>>) >>),
       Block(1, << Tx(19, <<TxIn(17, 0), TxIn(17, 0)>>, <<60>>) >>),
       Block(2, << Tx(20, <<TxIn(17, 1)>>, <<70>>) >>) >>

\* block 1 spends an output of a transaction (37) that no block creates
ChainMissing ==
    << Block(0, << Tx(17, <<Coinbase>>, <<50, 51>>) >>),
       Block(1, << Tx(19, <<TxIn(17, 1), TxIn(37, 0)>>, <<60>>) >>),
       Block(2, << Tx(20, <<TxIn(17, 0)>>, <<70>>) >>) >>

\* blocks 0 and 1 both hold a transaction of txid 17 (the chain has such
\* pairs of identical coinbase transactions); block 2 spends 17:0
ChainDuplicate ==
    << Block(0, << Tx(17, <<Coinbase>>, <<50>>) >>),
       Block(1, << Tx(17, <<Coinbase>>, <<52>>) >>),
       Block(2, << Tx(20, <<TxIn(17, 0)>>, <<70>>) >>) >>

Chains ==
    {ChainExample, ChainInner, ChainDoubleSpend, ChainSameBlock, ChainMissing,
     ChainDuplicate}

\* ------------------------------------------------- chain-level definitions

IsNull(op) == op.txid = 0 /\ op.vout = NullVout

\* positions <<height, tx index, input index>> of the non-coinbase inputs of c
Spends(c) ==
    UNION { UNION { { <<h, t, i>> :
                        i \in { j \in 1 .. Len(c[h + 1].txdata[t].input) :
                                  ~IsNull(c[h + 1].txdata[t].input[j].previous_output) } } :
                    t \in 1 .. Len(c[h + 1].txdata) } :
            h \in 0 .. Len(c) - 1 }

InputAt(c, p) == c[p[1] + 1].txdata[p[2]].input[p[3]].previous_output

\* positions <<height, tx index>> of the transactions of c
TxPositions(c) ==
    UNION { { <<h, t>> : t \in 1 .. Len(c[h + 1].txdata) } : h \in 0 .. Len(c) - 1 }

TxAt(c, q) == c[q[1] + 1].txdata[q[2]]

\* the outputs the first n blocks of c create: <<txid, index, value>>
Created(c, n) ==
    UNION { { <<TxAt(c, q).txid, i - 1, TxAt(c, q).output[i]>> :
                i \in 1 .. Len(TxAt(c, q).output) } :
            q \in { r \in TxPositions(c) : r[1] < n } }

\* the output created at (txid, index) by a transaction before position
\* <<h, t>> of c, as a set (empty when there is none)
CreatedBefore(c, h, t, op) ==
    { TxAt(c, q).output[op.vout + 1] :
        q \in { r \in TxPositions(c) :
                  /\ r[1] < h \/ (r[1] = h /\ r[2] < t)
                  /\ TxAt(c, r).txid = op.txid
                  /\ op.vout >= 0
                  /\ op.vout < Len(TxAt(c, r).output) } }

\* every non-coinbase input references an output created at an earlier
\* position, no two inputs reference the same output, txids are unique
ValidChain(c) ==
    /\ \A p \in Spends(c) : CreatedBefore(c, p[1], p[2], InputAt(c, p)) # {}
    /\ \A p, q \in Spends(c) : p # q => InputAt(c, p) # InputAt(c, q)
    /\ \A p, q \in TxPositions(c) : p # q => TxAt(c, p).txid # TxAt(c, q).txid

\* ------------------------------------------------------------ option type

\* Option<T>: None is the empty sequence, Some(x) the one-element sequence
None == <<>>

Some(x) == <<x>>

\* Result<T, ()>: Err(()) is the empty sequence, Ok(x) the one-element one
Err == <<>>

Ok(x) == <<x>>

\* --------------------------------------------------- compressed ids, keys

\* width of the compressed transaction id, scaled down from 128 bits
CompressBits == 4

\* Compress::compress: the low bits of the transaction id
Compress(txid) == txid % (2 ^ CompressBits)

\* txo_key: the compressed id's bytes followed by the index's bytes, both
\* of fixed width
txo_key(txid_compressed, n) == <<txid_compressed, n>>

\* txo_to_u8: the serialized output, the value little-endian (two bytes
\* at this scale)
txo_to_u8(txo) == <<txo % 256, txo \div 256>>

\* txo_from_u8: None when the bytes do not decode
txo_from_u8(bytes) ==
    IF Len(bytes) = 2 THEN Some(bytes[1] + 256 * bytes[2]) ELSE None

\* ---------------------------------------------------------------- VecMap

\* VecMap::from_vec: the boxed slice of optional outputs
VecMapFromVec(outs) == outs

\* VecMap::remove(n): takes the slot, leaving it absent
VecMapRemove(vm, n) ==
    IF n >= 0 /\ n < Len(vm)
    THEN [out |-> vm[n + 1], vm |-> [vm EXCEPT ![n + 1] = None]]
    ELSE [out |-> None, vm |-> vm]

\* VecMap::is_empty: all slots absent
VecMapIsEmpty(vm) == \A i \in 1 .. Len(vm) : vm[i] = None

\* ------------------------------------------------- HashedMap<u128, Arc<..>>

EmptyMap == [k \in {} |-> 0]

MapPut(m, k, v) == [x \in DOMAIN m \cup {k} |-> IF x = k THEN v ELSE m[x]]

MapRemove(m, k) == [x \in DOMAIN m \ {k} |-> m[x]]

MapGet(m, k) == IF k \in DOMAIN m THEN Some(m[k]) ELSE None

\* HashMap::extend: inserts the pairs in order, a later pair replacing an
\* earlier entry of the same key
RECURSIVE MapExtend(_, _)
MapExtend(m, pairs) ==
    IF pairs = <<>> THEN m
    ELSE MapExtend(MapPut(m, Head(pairs)[1], Head(pairs)[2]), Tail(pairs))

\* ------------------------------------------------------------- locks

\* in-memory: the Mutex of the map and the Mutex inside the Arc a
MapLock == <<"map", 0, 0>>

ArcLock(a) == <<"arc", a[1], a[2]>>

\* -------------------------------------------------- update_unspent_cache

\* in-memory: the outputs of one transaction, each Some(o.clone().into())
OutsFirstOnly(tx) == [i \in 1 .. Len(tx.output) |-> Some(tx.output[1])]

Outs(tx) == [i \in 1 .. Len(tx.output) |-> Some(tx.output[i])]

\* in-memory: new_unspent_cache, one (txid_compressed, new_unspent) pair per
\* transaction; the Arc allocated for transaction t of block h is <<h, t>>
NewUnspentCache(block) ==
    [t \in 1 .. Len(block.txdata) |->
        <<Compress(block.txdata[t].txid), <<block.header, t>>>>]

\* in-memory: the VecMaps behind the new Arcs
NewArcs(block) ==
    [a \in {<<block.header, t>> : t \in 1 .. Len(block.txdata)} |->
        VecMapFromVec(Outs(block.txdata[a[2]]))]

\* in-memory: the pairs handed to each unspent.lock().unwrap().extend(..)
\* call: the whole new_unspent_cache goes into one call
InsertChunksPerTx(block) ==
    [t \in 1 .. Len(block.txdata) |-> <<NewUnspentCache(block)[t]>>]

InsertChunks(block) == <<NewUnspentCache(block)>>

\* disk: the write batch of one block: the (key, value) puts in order
RECURSIVE BatchOfTx(_, _)
BatchOfTxShifted(tx, n) ==
    IF n >= Len(tx.output) THEN <<>>
    ELSE <<<<txo_key(Compress(tx.txid), n + 1), txo_to_u8(tx.output[n + 1])>>>>
         \o BatchOfTx(tx, n + 1)

BatchOfTx(tx, n) ==
    IF n >= Len(tx.output) THEN <<>>
    ELSE <<<<txo_key(Compress(tx.txid), n), txo_to_u8(tx.output[n + 1])>>>>
         \o BatchOfTx(tx, n + 1)

RECURSIVE BatchOfBlock(_, _)
BatchOfBlock(block, t) ==
    IF t > Len(block.txdata) THEN <<>>
    ELSE BatchOfTx(block.txdata[t], 0) \o BatchOfBlock(block, t + 1)

\* ------------------------------------------------------ connect_outpoints

\* the input is a coinbase input and is skipped
SkipInputNever(input) == FALSE

SkipInput(input) == IsNull(input.previous_output)

\* TxConnectable::from(&tx) and add_input
NewOutputTx(tx) == [txid |-> tx.txid, input |-> <<>>]

AddInput(otx, out) == [otx EXCEPT !.input = Append(@, out)]

\* BlockConnectable::from(header, hash) and add_tx
NewOutputBlock(block) == [header |-> block.header, txdata |-> <<>>]

AddTxFront(oblk, otx) == [oblk EXCEPT !.txdata = <<otx>> \o @]

AddTx(oblk, otx) == [oblk EXCEPT !.txdata = Append(@, otx)]

\* in-memory: the guards a thread still holds when the block around the
\* lookup ends: the guard of the map is a local of that block
KeptAfterLookupMap == {MapLock}

KeptAfterLookup == {}

\* in-memory: whether the key is removed from the map after the removal
\* of a slot that left is_empty
NeedsPurgeAlways(is_empty) == TRUE

NeedsPurge(is_empty) == is_empty

\* disk: keys of the spent outpoints of the block, in input order, with the
\* position <<tx index, input index>> of each
RECURSIVE KeyPositions(_, _, _)
KeyPositions(block, t, i) ==
    IF t > Len(block.txdata) THEN <<>>
    ELSE IF i > Len(block.txdata[t].input) THEN KeyPositions(block, t + 1, 1)
    ELSE IF SkipInput(block.txdata[t].input[i]) THEN KeyPositions(block, t, i + 1)
    ELSE <<<<t, i>>>> \o KeyPositions(block, t, i + 1)

KeyAt(block, q) ==
    txo_key(Compress(block.txdata[q[1]].input[q[2]].previous_output.txid),
            block.txdata[q[1]].input[q[2]].previous_output.vout)

CollectKeys(block) ==
    [j \in 1 .. Len(KeyPositions(block, 1, 1)) |->
        KeyAt(block, KeyPositions(block, 1, 1)[j])]

\* the loop over the transactions and inputs of the block, run from
\* transaction t, input i until it needs the cache or is over.
\* s = [t, i, output_block, output_tx]; in the result t > Len(txdata)
\* says that the block is finished
RECURSIVE Advance(_, _)
Advance(block, s) ==
    IF s.t > Len(block.txdata) THEN s
    ELSE IF s.i > Len(block.txdata[s.t].input)
    THEN Advance(block,
            [t |-> s.t + 1, i |-> 1,
             output_block |-> AddTx(s.output_block, s.output_tx),
             output_tx |-> IF s.t + 1 > Len(block.txdata)
                           THEN NewOutputTx(Tx(0, <<>>, <<>>))
                           ELSE NewOutputTx(block.txdata[s.t + 1])])
    ELSE IF SkipInput(block.txdata[s.t].input[s.i])
    THEN Advance(block, [s EXCEPT !.i = @ + 1])
    ELSE s

\* the loop's state when connect_outpoints starts on the block
StartLoop(block) ==
    Advance(block,
        [t |-> 1, i |-> 1, output_block |-> NewOutputBlock(block),
         output_tx |-> IF block.txdata = <<>>
                       THEN NewOutputTx(Tx(0, <<>>, <<>>))
                       ELSE NewOutputTx(block.txdata[1])])

\* disk: the whole loop over the multi_get answers tx_outs, read at pos;
\* Ok(output_block), or Err at the first answer that is absent
RECURSIVE ResolveAll(_, _, _, _)
ResolveAll(block, s, tx_outs, pos) ==
    IF s.t > Len(block.txdata) THEN Ok(s.output_block)
    ELSE LET bytes == tx_outs[pos + 1]
             prev_txo == IF bytes = None THEN None ELSE txo_from_u8(bytes[1])
         IN  IF prev_txo = None THEN Err
             ELSE ResolveAll(block,
                     Advance(block,
                        [s EXCEPT !.output_tx = AddInput(@, prev_txo[1]),
                                  !.i = @ + 1]),
                     tx_outs, pos + 1)

\* ----------------------------------------------------------------- state

VARIABLES
    chain,      \* the blocks of the chain, by height
    avail,      \* the block source holds the blocks of heights [0, avail)
    backend,    \* "mem" or "disk": the cache backend of the build
    failed,     \* the scratch storage of the disk backend could not be created
    next1,      \* stage 1: the next unclaimed height
    w1,         \* stage 1: the workers
    chan1,      \* stage 1: the delivery channel
    buf1,       \* stage 1: the consumer's buffer of early arrivals
    exp1,       \* stage 1: the position the consumer expects next
    ended1,     \* stage 1: next has returned None
    w2,         \* stage 2: the workers
    chan2,      \* stage 2: the delivery channel
    buf2,       \* stage 2: the consumer's buffer of early arrivals
    exp2,       \* stage 2: the position the consumer expects next
    ended2,     \* stage 2: next has returned None
    unspent,    \* in-memory cache: compressed txid -> Arc
    arcs,       \* in-memory cache: Arc -> VecMap behind its Mutex
    rocks,      \* disk cache: key -> value bytes
    held,       \* in-memory cache: the pairs <<thread, lock>> of the guards alive
    yielded,    \* the connected blocks next has returned, in order
    nones,      \* the number of calls of next that returned None
    touched,    \* history: the inputs <<height, tx, input>> that accessed the cache
    attempts,   \* history: the removals tried: [slot, by, got]
    inserted,   \* history: the heights whose outputs stage 1 has inserted
    errs        \* history: the heights whose connect_outpoints returned Err

vars == <<chain, avail, backend, failed, next1, w1, chan1, buf1, exp1, ended1,
          w2, chan2, buf2, exp2, ended2, unspent, arcs, rocks, held, yielded,
          nones, touched, attempts, inserted, errs>>

config == <<chain, avail, backend, failed>>

stage1 == <<next1, w1, chan1, buf1, exp1, ended1>>

stage2 == <<w2, chan2, buf2, exp2, ended2>>

cache == <<unspent, arcs, rocks, held>>

history == <<touched, attempts, inserted, errs>>

\* the threads: worker w of stage 1 and worker w of stage 2
Thread1(w) == <<1, w>>

Thread2(w) == <<2, w>>

\* no guard of the lock is alive
Free(l) == \A g \in held : g[2] # l

\* the locks whose guards thread o holds
HeldBy(o) == { g[2] : g \in { x \in held : x[1] = o } }

\* thread o drops its guards, those of the locks in kept excepted
ReleaseNothing(o, kept) == held

Release(o, kept) == { g \in held : g[1] # o \/ g[2] \in kept }

Workers == 1 .. NumWorkers

\* the end of ConnectedBlockIter::new(db, end)
end == Len(chain)

\* the heights 0..end handed to stage 1, in order
HeightsFromOne(n) == [i \in 1 .. n |-> i]

HeightsDescending(n) == [i \in 1 .. n |-> n - i]

Heights(n) == [i \in 1 .. n |-> i - 1]

\* db.get_block(height)
GetBlock(height) == IF height < avail THEN Ok(chain[height + 1]) ELSE Err

\* update_unspent_cache: what it returns for the answer of get_block
UpdateResultDefault(got, height) ==
    IF got = Err THEN Ok(Block(height, <<>>)) ELSE Ok(got[1])

UpdateResult(got, height) == IF got = Err THEN Err ELSE Ok(got[1])

\* ConnectedBlockIter::new: whether construction degrades to null():
\* only the disk backend allocates scratch storage that can fail
DegradesNever(be, err) == FALSE

Degrades(be, err) == be = "disk" /\ err

\* the iterator is ConnectedBlockIter::null(): one engine over Vec::new()
null == Degrades(backend, failed)

NoBlock == Block(0 - 1, <<>>)

NoLoop == [t |-> 0, i |-> 0, output_block |-> NewOutputBlock(NoBlock),
           output_tx |-> NewOutputTx(Tx(0, <<>>, <<>>))]

Idle1 == [pc |-> "idle", pos |-> 0, height |-> 0, chunks |-> <<>>, res |-> Err]

Idle2 == [pc |-> "idle", pos |-> 0, blk |-> NoBlock, loop |-> NoLoop,
          prev_tx |-> None, tx_out |-> None, is_empty |-> FALSE,
          keys |-> <<>>, tx_outs |-> <<>>, del |-> 0, res |-> Err]

Init ==
    /\ chain \in Chains
    /\ avail \in 0 .. Len(chain)
    /\ backend \in {"mem", "disk"}
    /\ failed \in IF backend = "disk" THEN BOOLEAN ELSE {FALSE}
    /\ next1 = 0
    /\ w1 = [w \in Workers |-> Idle1]
    /\ chan1 = <<>>
    /\ buf1 = {}
    /\ exp1 = 0
    /\ ended1 = FALSE
    /\ w2 = [w \in Workers |-> Idle2]
    /\ chan2 = <<>>
    /\ buf2 = {}
    /\ exp2 = 0
    /\ ended2 = FALSE
    /\ unspent = EmptyMap
    /\ arcs = EmptyMap
    /\ rocks = EmptyMap
    /\ held = {}
    /\ yielded = <<>>
    /\ nones = 0
    /\ touched = {}
    /\ attempts = {}
    /\ inserted = {}
    /\ errs = {}

\* ------------------------------------------------ the engine (ParIter)

\* the item of position p among the items its, as a set
ItemAt(its, p) == { it \in its : it.pos = p }

AllExited(ws) == \A w \in Workers : ws[w].pc = "exit"

\* ------------------------------------------------------------- stage 1

\* a worker takes the next unclaimed height, or stops when none is left
Claim1(w) ==
    /\ ~null
    /\ w1[w].pc = "idle"
    /\ IF next1 < Len(Heights(end))
       THEN /\ w1' = [w1 EXCEPT ![w] = [pc |-> "run", pos |-> next1,
                                        height |-> Heights(end)[next1 + 1],
                                        chunks |-> <<>>, res |-> Err]]
            /\ next1' = next1 + 1
       ELSE /\ w1' = [w1 EXCEPT ![w].pc = "exit"]
            /\ next1' = next1
    /\ UNCHANGED <<config, chan1, buf1, exp1, ended1, stage2, cache, yielded,
                   nones, history>>

\* update_unspent_cache(unspent, db, height): get_block; disk: the batch is
\* written; in-memory: new_unspent_cache is built and unspent.lock() returns
\* (also for each further extend call when there is more than one)
Update1(w) ==
    /\ w1[w].pc = "run"
    /\ LET got == GetBlock(w1[w].height)
           todo == IF got = Err THEN <<>>
                   ELSE IF w1[w].res # Err THEN w1[w].chunks
                   ELSE InsertChunks(got[1])
       IN  IF got = Err
           THEN /\ w1' = [w1 EXCEPT ![w].pc = "send",
                                    ![w].res = UpdateResult(got, w1[w].height)]
                /\ UNCHANGED <<cache, inserted>>
           ELSE IF backend = "disk"
           THEN /\ w1' = [w1 EXCEPT ![w].pc = "send",
                                    ![w].res = UpdateResult(got, w1[w].height)]
                /\ rocks' = MapExtend(rocks, BatchOfBlock(got[1], 1))
                /\ inserted' = inserted \cup {w1[w].height}
                /\ UNCHANGED <<unspent, arcs, held>>
           ELSE IF todo = <<>>
           THEN /\ w1' = [w1 EXCEPT ![w].pc = "send",
                                    ![w].res = UpdateResult(got, w1[w].height)]
                /\ inserted' = inserted \cup {w1[w].height}
                /\ UNCHANGED cache
           ELSE /\ Free(MapLock)
                /\ held' = held \cup {<<Thread1(w), MapLock>>}
                /\ w1' = [w1 EXCEPT ![w].pc = "insert", ![w].chunks = todo,
                                    ![w].res = UpdateResult(got, w1[w].height)]
                /\ UNCHANGED <<unspent, arcs, rocks, inserted>>
    /\ UNCHANGED <<config, next1, chan1, buf1, exp1, ended1, stage2, yielded,
                   nones, touched, attempts, errs>>

\* in-memory: extend(..) under the guard of the map, which is dropped at
\* the end of the statement
Insert1(w) ==
    /\ w1[w].pc = "insert"
    /\ <<Thread1(w), MapLock>> \in held
    /\ LET chunk == Head(w1[w].chunks)
           block == w1[w].res[1]
           last == Tail(w1[w].chunks) = <<>>
       IN  /\ unspent' = MapExtend(unspent, chunk)
           /\ arcs' = [a \in {chunk[j][2] : j \in 1 .. Len(chunk)} |->
                          NewArcs(block)[a]] @@ arcs
           /\ held' = Release(Thread1(w), {})
           /\ w1' = [w1 EXCEPT ![w].pc = IF last THEN "send" ELSE "run",
                               ![w].chunks = Tail(w1[w].chunks)]
           /\ inserted' = IF last THEN inserted \cup {w1[w].height} ELSE inserted
    /\ UNCHANGED <<config, next1, chan1, buf1, exp1, ended1, stage2, rocks,
                   yielded, nones, touched, attempts, errs>>

\* the worker delivers (position, result); it waits while the channel is full
Send1(w) ==
    /\ w1[w].pc = "send"
    /\ Len(chan1) < ChanCap
    /\ chan1' = Append(chan1, [pos |-> w1[w].pos, res |-> w1[w].res])
    /\ w1' = [w1 EXCEPT ![w] = Idle1]
    /\ UNCHANGED <<config, next1, buf1, exp1, ended1, stage2, cache, yielded,
                   nones, history>>

\* stage 1's next, called by a stage-2 worker that asks for a task: an early
\* arrival is received and buffered
Recv1 ==
    /\ \E w \in Workers : w2[w].pc = "idle"
    /\ ~null
    /\ ~ended1
    /\ ItemAt(buf1, exp1) = {}
    /\ chan1 # <<>>
    /\ buf1' = buf1 \cup {Head(chan1)}
    /\ chan1' = Tail(chan1)
    /\ UNCHANGED <<config, next1, w1, exp1, ended1, stage2, cache, yielded,
                   nones, history>>

\* ------------------------------------------------------------- stage 2

\* the worker's state when connect_outpoints starts on block blk
Started(p, blk) ==
    LET s == StartLoop(blk)
    IN  IF backend = "disk"
        THEN [Idle2 EXCEPT !.pc = "mget", !.pos = p, !.blk = blk, !.loop = s]
        ELSE IF s.t > Len(blk.txdata)
        THEN [Idle2 EXCEPT !.pc = "send", !.pos = p, !.blk = blk, !.loop = s,
                           !.res = Ok(s.output_block)]
        ELSE [Idle2 EXCEPT !.pc = "lookup", !.pos = p, !.blk = blk, !.loop = s]

\* a worker takes the next task, which is the next item of stage 1 (of the
\* empty vector in the null iterator), or stops when that returns None
Claim2(w) ==
    /\ w2[w].pc = "idle"
    /\ \/ /\ null \/ ended1
          /\ w2' = [w2 EXCEPT ![w].pc = "exit"]
          /\ UNCHANGED <<exp1, buf1, ended1>>
       \/ /\ ~null /\ ~ended1
          /\ \E it \in ItemAt(buf1, exp1) :
               /\ buf1' = buf1 \ {it}
               /\ IF it.res = Err
                  THEN /\ ended1' = TRUE
                       /\ exp1' = exp1
                       /\ w2' = [w2 EXCEPT ![w].pc = "exit"]
                  ELSE /\ ended1' = ended1
                       /\ exp1' = exp1 + 1
                       /\ w2' = [w2 EXCEPT ![w] = Started(exp1, it.res[1])]
       \/ /\ ~null /\ ~ended1
          /\ ItemAt(buf1, exp1) = {}
          /\ chan1 = <<>>
          /\ AllExited(w1)
          /\ ended1' = TRUE
          /\ w2' = [w2 EXCEPT ![w].pc = "exit"]
          /\ UNCHANGED <<exp1, buf1>>
    /\ UNCHANGED <<config, next1, w1, chan1, chan2, buf2, exp2, ended2, cache,
                   yielded, nones, history>>

\* the input the loop of worker w stands at, and its position in the chain
CurInput(w) == w2[w].blk.txdata[w2[w].loop.t].input[w2[w].loop.i]

CurPos(w) == <<w2[w].blk.header, w2[w].loop.t, w2[w].loop.i>>

\* in-memory: the loop after tx_out was taken for the current input:
\* add_input and go on, or return Err
Resolved(w, tx_out) ==
    IF tx_out = None
    THEN [w2[w] EXCEPT !.pc = "send", !.res = Err]
    ELSE LET s == Advance(w2[w].blk,
                     [w2[w].loop EXCEPT !.output_tx = AddInput(@, tx_out[1]),
                                        !.i = @ + 1])
         IN  IF s.t > Len(w2[w].blk.txdata)
             THEN [w2[w] EXCEPT !.pc = "send", !.loop = s,
                                !.res = Ok(s.output_block)]
             ELSE [w2[w] EXCEPT !.pc = "lookup", !.loop = s]

\* in-memory: the lock the thread is about to take: the entry's for the
\* removal of the slot, the map's for the lookup and the removal of the key
Wanted(w) ==
    IF w2[w].pc = "remove" THEN ArcLock(w2[w].prev_tx[1]) ELSE MapLock

\* in-memory: lock() returns; the thread waits while another guard of the
\* lock is alive (also its own: the Mutex is not reentrant)
Acquire2(w) ==
    /\ w2[w].pc \in {"lookup", "remove", "purge"}
    /\ Wanted(w) \notin HeldBy(Thread2(w))
    /\ Free(Wanted(w))
    /\ held' = held \cup {<<Thread2(w), Wanted(w)>>}
    /\ UNCHANGED <<config, stage1, stage2, unspent, arcs, rocks, yielded, nones,
                   history>>

\* in-memory: under the guard of the map: get(prev_txid), cloning the Arc
Lookup2(w) ==
    /\ w2[w].pc = "lookup"
    /\ <<Thread2(w), MapLock>> \in held
    /\ LET prev_tx == MapGet(unspent, Compress(CurInput(w).previous_output.txid))
       IN  w2' = [w2 EXCEPT ![w] =
                    IF prev_tx = None
                    THEN [w2[w] EXCEPT !.pc = "send", !.res = Err]
                    ELSE [w2[w] EXCEPT !.pc = "remove", !.prev_tx = prev_tx]]
    /\ held' = Release(Thread2(w), KeptAfterLookup)
    /\ touched' = touched \cup {CurPos(w)}
    /\ UNCHANGED <<config, stage1, chan2, buf2, exp2, ended2, unspent, arcs,
                   rocks, yielded, nones, attempts, inserted, errs>>

\* in-memory, under the entry's lock: the slot as get would read it
PeekUnderLock(vm, n) ==
    [out |-> VecMapRemove(vm, n).out, vm |-> vm, is_empty |-> VecMapIsEmpty(vm)]

\* in-memory, under the entry's lock: remove(n), then is_empty()
RemoveUnderLock(vm, n) ==
    [out |-> VecMapRemove(vm, n).out, vm |-> VecMapRemove(vm, n).vm,
     is_empty |-> VecMapIsEmpty(VecMapRemove(vm, n).vm)]

\* in-memory: under the guard of the entry: remove the slot, read is_empty
Remove2(w) ==
    /\ w2[w].pc = "remove"
    /\ <<Thread2(w), ArcLock(w2[w].prev_tx[1])>> \in held
    /\ LET a == w2[w].prev_tx[1]
           n == CurInput(w).previous_output.vout
           r == RemoveUnderLock(arcs[a], n)
       IN  /\ arcs' = [arcs EXCEPT ![a] = r.vm]
           /\ attempts' = attempts \cup
                 {[slot |-> <<a, n>>, by |-> CurPos(w), got |-> r.out # None]}
           /\ w2' = [w2 EXCEPT ![w] =
                        IF NeedsPurge(r.is_empty)
                        THEN [w2[w] EXCEPT !.pc = "purge", !.tx_out = r.out,
                                           !.is_empty = r.is_empty]
                        ELSE [Resolved(w, r.out) EXCEPT !.prev_tx = None]]
    /\ held' = { g \in held : g # <<Thread2(w), ArcLock(w2[w].prev_tx[1])>> }
    /\ UNCHANGED <<config, stage1, chan2, buf2, exp2, ended2, unspent, rocks,
                   yielded, nones, touched, inserted, errs>>

\* in-memory: the entry is empty: under the guard of the map,
\* remove(prev_txid)
Purge2(w) ==
    /\ w2[w].pc = "purge"
    /\ <<Thread2(w), MapLock>> \in held
    /\ unspent' = MapRemove(unspent, Compress(CurInput(w).previous_output.txid))
    /\ w2' = [w2 EXCEPT ![w] =
                 [Resolved(w, w2[w].tx_out) EXCEPT !.prev_tx = None,
                                                   !.tx_out = None,
                                                   !.is_empty = FALSE]]
    /\ held' = Release(Thread2(w), {})
    /\ UNCHANGED <<config, stage1, chan2, buf2, exp2, ended2, arcs, rocks,
                   yielded, nones, history>>

\* disk: the keys are collected and read with one multi_get
MultiGet2(w) ==
    /\ w2[w].pc = "mget"
    /\ LET blk == w2[w].blk
           keys == CollectKeys(blk)
           tx_outs == [j \in 1 .. Len(keys) |-> MapGet(rocks, keys[j])]
           kp == KeyPositions(blk, 1, 1)
       IN  /\ touched' = touched \cup
                 {<<blk.header, kp[j][1], kp[j][2]>> : j \in 1 .. Len(kp)}
           /\ attempts' = attempts \cup
                 {[slot |-> keys[j], by |-> <<blk.header, kp[j][1], kp[j][2]>>,
                   got |-> tx_outs[j] # None] : j \in 1 .. Len(keys)}
           /\ w2' = [w2 EXCEPT ![w] =
                        IF keys = <<>>
                        THEN [w2[w] EXCEPT
                                !.pc = "send",
                                !.res = ResolveAll(blk, w2[w].loop, tx_outs, 0)]
                        ELSE [w2[w] EXCEPT !.pc = "delete", !.keys = keys,
                                           !.tx_outs = tx_outs, !.del = 1]]
    /\ UNCHANGED <<config, stage1, chan2, buf2, exp2, ended2, cache, yielded,
                   nones, inserted, errs>>

\* disk: one key is deleted; after the last one the loop over the
\* transactions runs on the answers of the multi_get
Delete2(w) ==
    /\ w2[w].pc = "delete"
    /\ rocks' = MapRemove(rocks, w2[w].keys[w2[w].del])
    /\ w2' = [w2 EXCEPT ![w] =
                 IF w2[w].del < Len(w2[w].keys)
                 THEN [w2[w] EXCEPT !.del = @ + 1]
                 ELSE [w2[w] EXCEPT
                         !.pc = "send", !.keys = <<>>, !.tx_outs = <<>>,
                         !.del = 0,
                         !.res = ResolveAll(w2[w].blk, w2[w].loop,
                                            w2[w].tx_outs, 0)]]
    /\ UNCHANGED <<config, stage1, chan2, buf2, exp2, ended2, unspent, arcs,
                   held, yielded, nones, history>>

\* the worker delivers (position, result); it waits while the channel is full
Send2(w) ==
    /\ w2[w].pc = "send"
    /\ Len(chan2) < ChanCap
    /\ chan2' = Append(chan2, [pos |-> w2[w].pos, res |-> w2[w].res])
    /\ w2' = [w2 EXCEPT ![w] = Idle2]
    /\ errs' = IF w2[w].res = Err THEN errs \cup {w2[w].blk.header} ELSE errs
    /\ UNCHANGED <<config, stage1, buf2, exp2, ended2, cache, yielded, nones,
                   touched, attempts, inserted>>

\* ------------------------------------------------- ConnectedBlockIter::next

\* the caller is inside next: an early arrival is received and buffered
Recv2 ==
    /\ nones < MaxNone
    /\ ~ended2
    /\ ItemAt(buf2, exp2) = {}
    /\ chan2 # <<>>
    /\ buf2' = buf2 \cup {Head(chan2)}
    /\ chan2' = Tail(chan2)
    /\ UNCHANGED <<config, stage1, w2, exp2, ended2, cache, yielded, nones,
                   history>>

\* next returns: the item of the expected position, or None
IterNext ==
    /\ nones < MaxNone
    /\ \/ /\ ended2
          /\ nones' = nones + 1
          /\ UNCHANGED <<buf2, exp2, ended2, yielded>>
       \/ /\ ~ended2
          /\ \E it \in ItemAt(buf2, exp2) :
               /\ buf2' = buf2 \ {it}
               /\ IF it.res = Err
                  THEN /\ ended2' = TRUE
                       /\ nones' = nones + 1
                       /\ UNCHANGED <<exp2, yielded>>
                  ELSE /\ exp2' = exp2 + 1
                       /\ yielded' = Append(yielded, it.res[1])
                       /\ UNCHANGED <<ended2, nones>>
       \/ /\ ~ended2
          /\ ItemAt(buf2, exp2) = {}
          /\ chan2 = <<>>
          /\ AllExited(w2)
          /\ ended2' = TRUE
          /\ nones' = nones + 1
          /\ UNCHANGED <<buf2, exp2, yielded>>
    /\ UNCHANGED <<config, stage1, w2, chan2, cache, history>>

\* ------------------------------------------------------- specification

Next ==
    \/ \E w \in Workers : Claim1(w)
    \/ \E w \in Workers : Update1(w)
    \/ \E w \in Workers : Insert1(w)
    \/ \E w \in Workers : Send1(w)
    \/ Recv1
    \/ \E w \in Workers : Claim2(w)
    \/ \E w \in Workers : Acquire2(w)
    \/ \E w \in Workers : Lookup2(w)
    \/ \E w \in Workers : Remove2(w)
    \/ \E w \in Workers : Purge2(w)
    \/ \E w \in Workers : MultiGet2(w)
    \/ \E w \in Workers : Delete2(w)
    \/ \E w \in Workers : Send2(w)
    \/ Recv2
    \/ IterNext

Spec == Init /\ [][Next]_vars

\* the runs on a valid chain whose blocks are all in the block source, the
\* iterator not degraded
InitComplete == Init /\ ValidChain(chain) /\ avail = end /\ ~null

\* these runs under fair scheduling: the threads are operating-system
\* threads and the caller keeps calling next, so a step that can be taken
\* is not put off for ever
FairSpec == InitComplete /\ [][Next]_vars /\ WF_vars(Next)

\* ------------------------------------------------ reference definitions

\* next has returned None: the sequence has ended
Done == nones > 0

\* the values the chain creates at the outpoint, as a set
ValuesAt(c, op) ==
    { x[3] : x \in { y \in Created(c, Len(c)) : y[1] = op.txid /\ y[2] = op.vout } }

\* the previous outpoints of the non-coinbase inputs of a transaction, in order
NonCoinbase(tx) ==
    LET F[i \in 0 .. Len(tx.input)] ==
            IF i = 0 THEN <<>>
            ELSE IF IsNull(tx.input[i].previous_output) THEN F[i - 1]
            ELSE Append(F[i - 1], tx.input[i].previous_output)
    IN  F[Len(tx.input)]

\* the raw block a yielded block was built from
RawOf(b) == chain[b.header + 1]

\* position p comes before position q in the chain
Before(p, q) ==
    \/ p[1] < q[1]
    \/ p[1] = q[1] /\ p[2] < q[2]
    \/ p[1] = q[1] /\ p[2] = q[2] /\ p[3] < q[3]

\* the connected form of the block of height h: every non-coinbase input
\* resolved to the output the chain creates at its outpoint
Connected(c, h) ==
    [header |-> h,
     txdata |-> [t \in 1 .. Len(c[h + 1].txdata) |->
        [txid |-> c[h + 1].txdata[t].txid,
         input |-> [j \in 1 .. Len(NonCoinbase(c[h + 1].txdata[t])) |->
            CHOOSE v \in ValuesAt(c, NonCoinbase(c[h + 1].txdata[t])[j]) : TRUE]]]]

\* a single-threaded run, block after block, fails on the block of height h
\* (all blocks below h connected): an input finds its outpoint not inserted
\* by the blocks up to h, or taken by an earlier block; the in-memory backend
\* also fails on an outpoint taken by an earlier input of the block itself
SeqFails(c, h, be) ==
    \E p \in Spends(c) :
        /\ p[1] = h
        /\ \/ { x \in Created(c, h + 1) :
                  x[1] = InputAt(c, p).txid /\ x[2] = InputAt(c, p).vout } = {}
           \/ \E q \in Spends(c) :
                  /\ InputAt(c, q) = InputAt(c, p)
                  /\ IF be = "mem" THEN Before(q, p) ELSE q[1] < h

\* the number of blocks a single-threaded run yields
SeqStop(c, m, be) ==
    CHOOSE h \in 0 .. Len(c) :
        /\ h >= m \/ h = Len(c) \/ SeqFails(c, h, be)
        /\ \A g \in 0 .. h - 1 : g < m /\ ~SeqFails(c, g, be)

\* the input at p references an outpoint that the chain never creates or
\* that an earlier input (of an earlier block or of the same block) spends
Offending(c, p) ==
    \/ ValuesAt(c, InputAt(c, p)) = {}
    \/ \E q \in Spends(c) : Before(q, p) /\ InputAt(c, q) = InputAt(c, p)

\* the outputs the cache holds: <<compressed txid, index, value>>
CacheOutputs ==
    IF backend = "mem"
    THEN UNION { { <<k, n - 1, arcs[unspent[k]][n][1]>> :
                     n \in { i \in 1 .. Len(arcs[unspent[k]]) :
                               arcs[unspent[k]][i] # None } } :
                 k \in DOMAIN unspent }
    ELSE { <<key[1], key[2], txo_from_u8(rocks[key])[1]>> : key \in DOMAIN rocks }

\* the outputs the first n blocks create and do not spend
UnspentAfter(c, n) ==
    { <<Compress(x[1]), x[2], x[3]>> :
        x \in { y \in Created(c, n) :
                  ~\E p \in Spends(c) :
                       /\ p[1] < n
                       /\ InputAt(c, p) = OutPoint(y[1], y[2]) } }

\* ----------------------------------------------------------------- claims

\* C1: for a valid chain, every non-coinbase input of every yielded block
\* carries exactly the output that the chain created at the referenced
\* (txid, index), under every schedule of the workers of both stages.
C1_ResolvedIsCreated ==
    ValidChain(chain) =>
        \A k \in 1 .. Len(yielded) :
            \A t \in 1 .. Len(yielded[k].txdata) :
                LET ops == NonCoinbase(RawOf(yielded[k]).txdata[t])
                    ins == yielded[k].txdata[t].input
                IN  /\ Len(ins) = Len(ops)
                    /\ \A j \in 1 .. Len(ops) : ValuesAt(chain, ops[j]) = {ins[j]}

\* the last block of a valid chain, with two spends of earlier blocks, was
\* yielded
C1_Witness ==
    /\ ValidChain(chain)
    /\ Len(yielded) = 3
    /\ Len(yielded[3].txdata[1].input) = 2

\* C2: the i-th block yielded (from 0) is the connected block of height i,
\* whatever order the workers finish in.
C2_InHeightOrder ==
    \A i \in 1 .. Len(yielded) : yielded[i].header = i - 1

\* blocks were yielded while a later position had arrived early and was
\* buffered
C2_Witness ==
    /\ Len(yielded) >= 1
    /\ \E it \in buf2 : it.pos > exp2 /\ it.res # Err

\* C3: determinism: for a fixed chain (valid or not) the sequence of
\* connected blocks yielded, and the point where it stops, is the one of a
\* single-threaded run, under every schedule of the workers.
C3_Deterministic ==
    (Done /\ ~null) =>
        yielded = [i \in 1 .. SeqStop(chain, avail, backend) |->
                      Connected(chain, i - 1)]

\* C4: if an input of the block of height k references an outpoint never
\* created or already spent, no block of height k or above is yielded, on
\* either backend.
C4_StopsBeforeOffending ==
    \A p \in Spends(chain) :
        Offending(chain, p) =>
            \A i \in 1 .. Len(yielded) : yielded[i].header < p[1]

\* C5: for a valid chain with a block at every height, once the workers of
\* both stages have finished, the cache holds exactly the outputs created in
\* [0, end) that no input in [0, end) spends.
C5_CacheIsUnspentSet ==
    (/\ ValidChain(chain)
     /\ avail = end
     /\ ~null
     /\ AllExited(w1)
     /\ AllExited(w2)) => CacheOutputs = UnspentAfter(chain, end)

\* both stages have finished a valid chain and unspent outputs remain
C5_Witness ==
    /\ ValidChain(chain)
    /\ avail = end
    /\ ~null
    /\ AllExited(w1)
    /\ AllExited(w2)
    /\ Cardinality(CacheOutputs) = 2
    /\ Len(yielded) = 3

\* C6: a coinbase input never reaches the cache: no lookup, no removal, no
\* key in the multi-get, and no resolved output appended for it.
C6_CoinbaseUntouched ==
    /\ \A p \in touched : p \in Spends(chain)
    /\ \A a \in attempts : a.by \in Spends(chain)
    /\ \A k \in 1 .. Len(yielded) :
          \A t \in 1 .. Len(yielded[k].txdata) :
              Len(yielded[k].txdata[t].input)
                  = Len(NonCoinbase(RawOf(yielded[k]).txdata[t]))

\* a block with a coinbase transaction and a spending transaction was
\* connected and yielded
C6_Witness ==
    /\ chain = ChainExample
    /\ Len(yielded) >= 2
    /\ yielded[2].txdata[1].input = <<>>
    /\ touched # {}

\* C7: a yielded block is complete: all transactions of its raw block in
\* their order, each with one resolved output per non-coinbase input in
\* input order; no block is yielded in partial form.
C7_YieldedIsComplete ==
    \A k \in 1 .. Len(yielded) :
        LET raw == RawOf(yielded[k])
        IN  /\ Len(yielded[k].txdata) = Len(raw.txdata)
            /\ \A t \in 1 .. Len(raw.txdata) :
                  /\ yielded[k].txdata[t].txid = raw.txdata[t].txid
                  /\ Len(yielded[k].txdata[t].input) = Len(NonCoinbase(raw.txdata[t]))
                  /\ \A j \in 1 .. Len(NonCoinbase(raw.txdata[t])) :
                        yielded[k].txdata[t].input[j]
                            \in ValuesAt(chain, NonCoinbase(raw.txdata[t])[j])

\* block 1 had one input resolved and failed on the next one: the iterator
\* ended after block 0 alone
C7_Witness ==
    /\ Done
    /\ Len(yielded) = 1
    /\ \E a, b \in attempts :
          a.by[1] = 1 /\ b.by[1] = 1 /\ a.got /\ Before(a.by, b.by) /\ ~b.got

\* C8: in-memory backend: of all attempts to remove one slot at most one
\* obtains the output; every other attempt finds it absent and its block
\* fails (it is never yielded).
C8_RemovedAtMostOnce ==
    backend = "mem" =>
        /\ \A a, b \in attempts : (a.slot = b.slot /\ a.got /\ b.got) => a = b
        /\ \A a \in attempts :
              ~a.got => \A i \in 1 .. Len(yielded) : yielded[i].header # a.by[1]

\* two workers tried the same slot: one got it, the other did not
C8_Witness ==
    /\ backend = "mem"
    /\ \E a, b \in attempts :
          /\ a.slot = b.slot
          /\ a.by[1] # b.by[1]
          /\ a.got
          /\ ~b.got

C10_NullIsEmpty ==
    (backend = "disk" /\ failed) =>
        /\ yielded = <<>>
        /\ exp2 = 0
        /\ \A w \in Workers : w2[w].pc \in {"idle", "exit"}

\* construction failed and next was called repeatedly, returning None
C10_Witness ==
    /\ backend = "disk"
    /\ failed
    /\ nones = MaxNone
    /\ yielded = <<>>

\* C11: disk backend: the removal of a spent outpoint is atomic: no two
\* inputs referencing the same outpoint (of two blocks, or of one block) both
\* find it present and both resolve it.
C11_DiskRemovalAtomic ==
    backend = "disk" =>
        \A a, b \in attempts : (a.slot = b.slot /\ a.got /\ b.got) => a = b

\* C12: insert before spend: while a stage-2 worker connects the block of
\* height k, stage 1 has finished inserting the outputs of every block of
\* heights 0..k, whatever the order in which the stage-1 workers complete.
C12_InsertBeforeSpend ==
    \A w \in Workers :
        w2[w].pc \notin {"idle", "exit"} =>
            \A g \in 0 .. w2[w].blk.header : g \in inserted

\* stage 1 completed out of order (block 2 inserted, block 1 not yet)
\* while a stage-2 worker is inside connect_outpoints on block 0
C12_Witness ==
    /\ inserted = {0, 2}
    /\ \E w \in Workers :
          /\ w2[w].pc \in {"lookup", "mget", "send"}
          /\ w2[w].blk.header = 0
    /\ \E w \in Workers : w1[w].pc \in {"run", "insert"} /\ w1[w].height = 1

\* C13: termination without deadlock: for a valid chain with a block at
\* every height in [0, end), under fair scheduling the caller receives all
\* end connected blocks and then None; and in no reachable state before the
\* end are all workers and the caller blocked (on a full channel, an empty
\* channel or a lock of the cache).
C13_TerminatesWithoutDeadlock ==
    /\ (ValidChain(chain) /\ avail = end /\ ~null) =>
           <>(Len(yielded) = end /\ Done)
    /\ [](~Done => ENABLED Next)

\* a valid chain with all its blocks in the source was connected to its
\* end, and next has returned None after the last block
C13_Witness ==
    /\ ValidChain(chain)
    /\ avail = end
    /\ ~null
    /\ Len(yielded) = end
    /\ Done

\* the threads of the two stages
Threads == {Thread1(w) : w \in Workers} \cup {Thread2(w) : w \in Workers}

\* stage-2 worker w is inside lock(), or about to call it
Waiting2(w) ==
    /\ w2[w].pc \in {"lookup", "remove", "purge"}
    /\ Wanted(w) \notin HeldBy(Thread2(w))

\* C14: lock discipline of the in-memory backend: no thread holds the lock
\* of the map and the lock of an entry at the same time; stage 1 takes only
\* the lock of the map; a thread that waits for a lock holds none, so no
\* cyclic wait between the two tiers exists.
C14_LockDiscipline ==
    /\ \A o \in Threads : Cardinality(HeldBy(o)) <= 1
    /\ \A w \in Workers : HeldBy(Thread1(w)) \subseteq {MapLock}
    /\ \A w \in Workers : w1[w].pc # "insert" => HeldBy(Thread1(w)) = {}
    /\ \A w \in Workers : Waiting2(w) => HeldBy(Thread2(w)) = {}

\* both tiers are in use at once: a stage-1 worker holds the lock of the
\* map for its insert while a stage-2 worker holds the lock of an entry
C14_Witness ==
    /\ \E w \in Workers : MapLock \in HeldBy(Thread1(w))
    /\ \E w \in Workers :
          /\ w2[w].pc = "remove"
          /\ HeldBy(Thread2(w)) = {ArcLock(w2[w].prev_tx[1])}

\* in-memory: the slots of the entry of the transaction at q are exactly
\* its outputs not yet taken by a removal
HoldsUnspentSlots(q) ==
    /\ Len(arcs[q]) = Len(TxAt(chain, q).output)
    /\ \A i \in 1 .. Len(arcs[q]) :
          IF \E a \in attempts : a.slot = <<q, i - 1>> /\ a.got
          THEN arcs[q][i] = None
          ELSE arcs[q][i] = Some(TxAt(chain, q).output[i])

\* C15: in-memory backend, at every instant: every transaction whose block
\* has passed stage 1 and that still has an unspent output has exactly one
\* entry in the map, holding exactly its unspent slots (no purge erases an
\* entry with a live slot, no insert replaces a live entry).
C15_OneEntryPerLiveTx ==
    backend = "mem" =>
        \A q \in TxPositions(chain) :
            q[1] \in inserted =>
                /\ HoldsUnspentSlots(q)
                /\ ~VecMapIsEmpty(arcs[q]) =>
                      MapGet(unspent, Compress(TxAt(chain, q).txid)) = Some(q)

\* in-memory: no insert-block and no remove-slot operation is under way
Quiescent ==
    \A w \in Workers :
        /\ w1[w].pc \notin {"run", "insert"}
        /\ w2[w].pc \notin {"lookup", "remove", "purge"}

\* C16: in-memory backend: once the insert-block and remove-slot operations
\* started so far have all run to completion, the map holds no entry whose
\* slots are all absent, whatever the number of outputs of the transactions
\* inserted and whether or not the removals succeeded.
C16_NoEmptyEntrySurvives ==
    (backend = "mem" /\ Quiescent) =>
        \A k \in DOMAIN unspent : ~VecMapIsEmpty(arcs[unspent[k]])

\* in-memory: the compressed id of the transaction whose output stage-2
\* worker w is spending
Spending(w) == Compress(CurInput(w).previous_output.txid)

\* in-memory: stage-2 workers w and v are spending outputs of two distinct
\* transactions
SpendDistinct(w, v) ==
    /\ w # v
    /\ w2[w].pc \in {"lookup", "remove", "purge"}
    /\ w2[v].pc \in {"lookup", "remove", "purge"}
    /\ Spending(w) # Spending(v)

\* C17 as stated: in-memory backend: two stage-2 workers that spend outputs
\* of two distinct transactions never contend on the same lock (neither
\* waits for a lock the other holds), and a stage-2 worker holds the lock
\* of the map only to remove a whole entry, never for a slot removal that
\* leaves its entry non-empty.
C17_NeverContend ==
    backend = "mem" =>
        /\ \A w, v \in Workers :
              (SpendDistinct(w, v) /\ Waiting2(v)) =>
                  Wanted(v) \notin HeldBy(Thread2(w))
        /\ \A w \in Workers :
              MapLock \in HeldBy(Thread2(w)) =>
                  w2[w].pc = "purge" /\ w2[w].is_empty

\* C17 amended: in-memory backend: two stage-2 workers that spend outputs
\* of two distinct transactions never contend on the lock of an entry, but
\* they do contend on the lock of the map: every slot removal takes it for
\* the lookup of its entry, and takes it again for the removal of the whole
\* entry only when the removal left the entry empty; the slot is removed
\* under the lock of the entry alone.
C17_ContendOnlyOnMapLock ==
    backend = "mem" =>
        /\ \A w, v \in Workers :
              (SpendDistinct(w, v) /\ Waiting2(v) /\ w2[v].pc = "remove") =>
                  Wanted(v) \notin HeldBy(Thread2(w))
        /\ \A w \in Workers :
              MapLock \in HeldBy(Thread2(w)) =>
                  \/ w2[w].pc = "lookup"
                  \/ w2[w].pc = "purge" /\ w2[w].is_empty
        /\ \A w \in Workers :
              w2[w].pc = "purge" =>
                  w2[w].is_empty /\ VecMapIsEmpty(arcs[w2[w].prev_tx[1]])
        /\ \A w \in Workers :
              w2[w].pc = "remove" => MapLock \notin HeldBy(Thread2(w))

\* two stage-2 workers spend outputs of distinct transactions; one holds
\* the lock of the map for its lookup and the other waits for it
C17_Witness ==
    /\ backend = "mem"
    /\ \E w, v \in Workers :
          /\ SpendDistinct(w, v)
          /\ w2[w].pc = "lookup"
          /\ MapLock \in HeldBy(Thread2(w))
          /\ w2[v].pc = "lookup"
          /\ Waiting2(v)

\* in-memory: the transactions of the block of height h whose entries have
\* been merged into the map so far
Merged(h) == { q \in DOMAIN arcs : q[1] = h }

\* C18: in-memory backend: insert-block is atomic with respect to lookups:
\* the entries of one block are merged under a single acquisition of the
\* lock of the map, so that in no state (hence in none a lookup observes)
\* some but not all of the transactions of a block have been merged.
C18_InsertBlockAtomic ==
    backend = "mem" =>
        \A h \in 0 .. end - 1 :
            \/ Merged(h) = {}
            \/ /\ Merged(h) = { q \in TxPositions(chain) : q[1] = h }
               /\ h \in inserted

\* a lookup holds the lock of the map and finds both transactions of block
\* 1 merged, while a stage-1 worker is about to insert block 2
C18_Witness ==
    /\ backend = "mem"
    /\ Cardinality(Merged(1)) = 2
    /\ Merged(2) = {}
    /\ \E w \in Workers :
          w2[w].pc = "lookup" /\ MapLock \in HeldBy(Thread2(w))
    /\ \E w \in Workers : w1[w].pc = "run" /\ w1[w].height = 2

\* the heights of the blocks on which connect_outpoints has returned Err
FailedHeights ==
    errs \cup { w2[w].blk.header :
                  w \in { v \in Workers : w2[v].pc = "send" /\ w2[v].res = Err } }

\* a removal has taken output n of the transaction at q out of the cache
Taken(q, n) ==
    \E a \in attempts :
        IF backend = "mem"
        THEN a.slot = <<q, n>> /\ a.got
        ELSE a.slot = txo_key(Compress(TxAt(chain, q).txid), n)

\* C19: a failed connect is not rolled back: once connect_outpoints has
\* failed on a block, the slots it removed for the block's earlier inputs
\* stay absent (disk: every key the block references is deleted), the
\* outputs stage 1 inserted for that block and for later blocks stay in the
\* cache until a removal takes them, and the block is not tried again.
C19_FailedConnectNotRolledBack ==
    \A h \in FailedHeights :
        /\ backend = "mem" =>
              \A a \in attempts :
                  (a.by[1] = h /\ a.got) =>
                      arcs[a.slot[1]][a.slot[2] + 1] = None
        /\ backend = "disk" =>
              \A j \in 1 .. Len(CollectKeys(chain[h + 1])) :
                  CollectKeys(chain[h + 1])[j] \notin DOMAIN rocks
        /\ \A q \in TxPositions(chain) :
              (q[1] >= h /\ q[1] \in inserted) =>
                  \A i \in 1 .. Len(TxAt(chain, q).output) :
                      \/ Taken(q, i - 1)
                      \/ <<Compress(TxAt(chain, q).txid), i - 1,
                           TxAt(chain, q).output[i]>> \in CacheOutputs
        /\ \A w \in Workers :
              (w2[w].pc \notin {"idle", "exit", "send"}) => w2[w].blk.header # h
        /\ \A a, b \in attempts : (a.by = b.by /\ a.by[1] = h) => a = b

\* connect_outpoints has failed on a block after it had removed the output
\* of an earlier input of that block, and stage 1 has inserted a later block
C19_Witness ==
    \E h \in errs :
        /\ \E a \in attempts : a.by[1] = h /\ a.got
        /\ \E b \in attempts : b.by[1] = h /\ ~b.got
        /\ h + 1 \in inserted
        /\ Done

====
